---- MODULE Spec2Model ----
(***************************************************************************)
(* training_pipeline/register_best_model.py: pick the best FINISHED run of *)
(* an MLflow experiment by a metric, register its model artifact as a new  *)
(* model version, wait until the version is READY, and move the alias      *)
(* "champion" to it.                                                       *)
(*                                                                         *)
(* The tracking store and the model registry are the MLflow backend.  They *)
(* are modelled by what the calls of this file ask of them: search_runs    *)
(* filters, orders (runs without the metric last, equal keys in store      *)
(* order) and truncates; register_model mints the next version number;     *)
(* get_model_version reports the version's status; the alias is a single   *)
(* pointer that set_registered_model_alias overwrites.                     *)
(*                                                                         *)
(* Time advances only through time.sleep(2): backend calls take no time.   *)
(***************************************************************************)
EXTENDS Integers, Sequences, FiniteSets, TLC

\* ---- bounds of the model ----
MaxRuns == 3
MaxMetric == 2
MaxTimeout == 5
MaxInvocations == 3

\* ---- constants of the program ----
POLL_INTERVAL_S == 2
MAX_RESULTS == 1
RECENT_MAX_RESULTS == 5
METRIC == "rmse"
CHAMPION == "champion"

Procs == {1, 2}

\* Python's None for a metric value; metric values are drawn from 1..MaxMetric.
None == -1

RunStatuses == {"FINISHED", "RUNNING"}
MetricNames == {METRIC}
MetricValues == 1 .. MaxMetric
\* best.data.metrics: a dict holding only the metrics the run logged
MetricDicts == UNION {[S -> MetricValues] : S \in SUBSET MetricNames}
Runs == [status : RunStatuses, metrics : MetricDicts]
RunLists == UNION {[1 .. n -> Runs] : n \in 0 .. MaxRuns}

\* WAIT_TIMEOUT_S = int(os.getenv("MODEL_WAIT_TIMEOUT", "180")): the non-negative ones
Timeouts == 0 .. MaxTimeout

\* What get_model_version returns for a version: an object whose status is one
\* of MLflow's three, or an object that carries no status attribute at all.
NO_STATUS_ATTR == "<no status attribute>"
VersionStatuses ==
    {"PENDING_REGISTRATION", "READY", "FAILED_REGISTRATION", NO_STATUS_ATTR}
ErrorKinds == {"none", "NoEligibleRun", "MissingMetric", "Timeout", "BackendError"}

VARIABLES
    experimentExists,   \* tracking store: is there an experiment of that name
    runs,               \* tracking store: the experiment's runs, in store order; run id = index
    versions,           \* registry: versions[v] is what a poll of version v returns
    alias,              \* registry: the version "champion" points at, 0 = alias not set
    HIGHER_IS_BETTER,   \* configuration read at import
    WAIT_TIMEOUT_S,     \* configuration read at import
    budget,             \* invocations that may still be started
    pc,                 \* per invocation: position in register_best_model
    loc,                \* per invocation: its local variables
    err,                \* per invocation: the exception that ended it
    result,             \* per invocation: the returned dict
    obs,                \* per invocation: what it did so far (calls, polls, sleeps)
    lastSetter          \* the invocation whose alias assignment the registry applied last, 0 = none

vars == <<experimentExists, runs, versions, alias, HIGHER_IS_BETTER, WAIT_TIMEOUT_S,
          budget, pc, loc, err, result, obs, lastSetter>>

store == <<experimentExists, runs>>
config == <<HIGHER_IS_BETTER, WAIT_TIMEOUT_S>>

Min(a, b) == IF a < b THEN a ELSE b

\* ---------------------------------------------------------------------------
\* The tracking store's search_runs, as register_best_model calls it
\* ---------------------------------------------------------------------------

\* best.data.metrics.get(metric)
GetMetric(run, metric) ==
    IF metric \in DOMAIN run.metrics THEN run.metrics[metric] ELSE None

\* variant: the two directions swapped
OrderDir_Flipped(higher_is_better) == IF higher_is_better THEN "ASC" ELSE "DESC"

\* order_dir = "DESC" if higher_is_better else "ASC"
OrderDir(higher_is_better) == IF higher_is_better THEN "DESC" ELSE "ASC"

\* filter_string: "attributes.status = 'FINISHED'" keeps the FINISHED runs,
\* "" keeps every run.  Nothing in either filter looks at the metric.
MatchesFilter(run, filter_string) ==
    IF filter_string = "attributes.status = 'FINISHED'"
    THEN run.status = "FINISHED"
    ELSE TRUE

RECURSIVE FilterIds(_, _, _)
\* ids of the first n runs that match the filter, in store order
FilterIds(rs, n, filter_string) ==
    IF n = 0 THEN <<>>
    ELSE LET front == FilterIds(rs, n - 1, filter_string)
         IN  IF MatchesFilter(rs[n], filter_string) THEN Append(front, n) ELSE front

\* order_by "metrics.<metric> <dir>": does run a sort strictly before run b.
\* A run without the metric sorts after every run that has it, in both directions.
SortsBefore(rs, a, b, metric, dir) ==
    LET va == GetMetric(rs[a], metric)
        vb == GetMetric(rs[b], metric)
    IN  IF va = None THEN FALSE
        ELSE IF vb = None THEN TRUE
        ELSE IF dir = "DESC" THEN va > vb ELSE va < vb

RECURSIVE InsertId(_, _, _, _, _)
\* insert id x into the ordered ids: before the first id it sorts strictly before
InsertId(rs, ids, x, metric, dir) ==
    IF ids = <<>> THEN <<x>>
    ELSE IF SortsBefore(rs, x, Head(ids), metric, dir) THEN <<x>> \o ids
    ELSE <<Head(ids)>> \o InsertId(rs, Tail(ids), x, metric, dir)

RECURSIVE SortIds(_, _, _, _)
\* stable sort of ids by the metric: equal keys keep their store order
SortIds(rs, ids, metric, dir) ==
    IF ids = <<>> THEN <<>>
    ELSE InsertId(rs, SortIds(rs, SubSeq(ids, 1, Len(ids) - 1), metric, dir),
                  ids[Len(ids)], metric, dir)

\* client.search_runs(filter_string=..., max_results=..., order_by=[metrics.<metric> <dir>])
SearchRuns(rs, filter_string, max_results, metric, dir) ==
    LET ordered == SortIds(rs, FilterIds(rs, Len(rs), filter_string), metric, dir)
    IN  SubSeq(ordered, 1, Min(max_results, Len(ordered)))

\* the diagnostic query: any status, at most 5 (its order does not matter to the caller)
SearchRecent(rs) ==
    LET all == FilterIds(rs, Len(rs), "")
    IN  SubSeq(all, 1, Min(RECENT_MAX_RESULTS, Len(all)))

\* ---------------------------------------------------------------------------
\* _wait_ready's two tests
\* ---------------------------------------------------------------------------

\* status = getattr(cur, "status", "READY")
GetStatus(cur) == IF cur = NO_STATUS_ATTR THEN "READY" ELSE cur

\* variant: the timeout taken at elapsed = timeout_s already
TimedOut_AtLeast(elapsed, timeout_s) == elapsed >= timeout_s

\* variant: the timeout taken one polling interval late
TimedOut_Late(elapsed, timeout_s) == elapsed > timeout_s + 2

\* time.time() - t0 > timeout_s
TimedOut(elapsed, timeout_s) == elapsed > timeout_s

\* ---------------------------------------------------------------------------
\* State
\* ---------------------------------------------------------------------------

NoLocals == [exp_id |-> 0, run_id |-> 0, best_val |-> None, mv |-> 0, elapsed |-> 0]
NoError == [kind |-> "none", metric |-> "", recent |-> FALSE]
NoResult == [model_version |-> 0, alias |-> "", best_run_id |-> 0,
             metric |-> "", metric_value |-> None]
NoObs == [regCalls |-> 0, aliasCalls |-> 0, polls |-> 0, sleeps |-> 0, pend |-> 0,
          lastPoll |-> "", aliasAtStart |-> 0, versionsAtStart |-> 0]

\* Every experiment content and configuration, nothing registered yet.
InitAll ==
    /\ experimentExists \in BOOLEAN
    /\ runs \in RunLists
    /\ (~experimentExists => runs = <<>>)
    /\ versions = <<>>
    /\ alias = 0
    /\ HIGHER_IS_BETTER \in BOOLEAN
    /\ WAIT_TIMEOUT_S \in Timeouts
    /\ pc = [p \in Procs |-> "idle"]
    /\ loc = [p \in Procs |-> NoLocals]
    /\ err = [p \in Procs |-> NoError]
    /\ result = [p \in Procs |-> NoResult]
    /\ obs = [p \in Procs |-> NoObs]
    /\ lastSetter = 0


\* ---------------------------------------------------------------------------
\* register_best_model, one action per step between two backend calls
\* ---------------------------------------------------------------------------

\* Entry: _load_env, _ensure_tracking_databricks, MlflowClient() and
\* _resolve_experiment_id (look the experiment up by name, create it if absent).
Start(p) ==
    /\ pc[p] \in {"idle", "done", "failed"}
    /\ budget > 0
    /\ budget' = budget - 1
    /\ experimentExists' = TRUE
    /\ pc' = [pc EXCEPT ![p] = "search"]
    /\ loc' = [loc EXCEPT ![p] = [NoLocals EXCEPT !.exp_id = 1]]
    /\ err' = [err EXCEPT ![p] = NoError]
    /\ result' = [result EXCEPT ![p] = NoResult]
    /\ obs' = [obs EXCEPT ![p] = [NoObs EXCEPT !.aliasAtStart = alias,
                                                !.versionsAtStart = Len(versions)]]
    /\ UNCHANGED <<runs, versions, alias, config, lastSetter>>

\* runs = client.search_runs(... "attributes.status = 'FINISHED'" ... max_results=1 ...)
BestRunQuery ==
    SearchRuns(runs, "attributes.status = 'FINISHED'", MAX_RESULTS, METRIC,
               OrderDir(HIGHER_IS_BETTER))

\* if not runs: second query for the message, raise RuntimeError
SearchFindsNothing(p) ==
    /\ pc[p] = "search"
    /\ BestRunQuery = <<>>
    /\ err' = [err EXCEPT ![p] = [kind |-> "NoEligibleRun", metric |-> METRIC,
                                  recent |-> SearchRecent(runs) # <<>>]]
    /\ pc' = [pc EXCEPT ![p] = "failed"]
    /\ UNCHANGED <<store, versions, alias, config, budget, loc, result, obs, lastSetter>>

\* variant: the best_val is None test left out
BestLacksMetric_Ignored(p) ==
    /\ pc[p] = "search"
    /\ BestRunQuery # <<>>
    /\ GetMetric(runs[BestRunQuery[1]], METRIC) = None
    /\ loc' = [loc EXCEPT ![p].run_id = BestRunQuery[1]]
    /\ pc' = [pc EXCEPT ![p] = "register"]
    /\ UNCHANGED <<store, versions, alias, config, budget, err, result, obs, lastSetter>>

\* best = runs[0]; best_val is None: raise RuntimeError
BestLacksMetric(p) ==
    /\ pc[p] = "search"
    /\ BestRunQuery # <<>>
    /\ GetMetric(runs[BestRunQuery[1]], METRIC) = None
    /\ loc' = [loc EXCEPT ![p].run_id = BestRunQuery[1]]
    /\ err' = [err EXCEPT ![p] = [kind |-> "MissingMetric", metric |-> METRIC,
                                  recent |-> FALSE]]
    /\ pc' = [pc EXCEPT ![p] = "failed"]
    /\ UNCHANGED <<store, versions, alias, config, budget, result, obs, lastSetter>>

\* best = runs[0]; run_id, best_val, run_uri
BestSelected(p) ==
    /\ pc[p] = "search"
    /\ BestRunQuery # <<>>
    /\ GetMetric(runs[BestRunQuery[1]], METRIC) # None
    /\ loc' = [loc EXCEPT ![p].run_id = BestRunQuery[1],
                          ![p].best_val = GetMetric(runs[BestRunQuery[1]], METRIC)]
    /\ pc' = [pc EXCEPT ![p] = "register"]
    /\ UNCHANGED <<store, versions, alias, config, budget, err, result, obs, lastSetter>>

\* mv = mlflow.register_model(...): the registry mints the next version number;
\* then _wait_ready starts its clock (t0 = time.time()).
Register(p) ==
    /\ pc[p] = "register"
    /\ \E s \in {"PENDING_REGISTRATION", "READY", NO_STATUS_ATTR} :
           versions' = Append(versions, s)
    /\ loc' = [loc EXCEPT ![p].mv = Len(versions) + 1, ![p].elapsed = 0]
    /\ obs' = [obs EXCEPT ![p].regCalls = @ + 1]
    /\ pc' = [pc EXCEPT ![p] = "wait"]
    /\ UNCHANGED <<store, alias, config, budget, err, result, lastSetter>>

\* One poll of _wait_ready: what the registry returns for the version.
Polled(p) == versions[loc[p].mv]

\* cur = get_model_version(...); status == "READY": return
PollReady(p) ==
    /\ pc[p] = "wait"
    /\ GetStatus(Polled(p)) = "READY"
    /\ obs' = [obs EXCEPT ![p].polls = @ + 1, ![p].lastPoll = Polled(p)]
    /\ pc' = [pc EXCEPT ![p] = "alias"]
    /\ UNCHANGED <<store, versions, alias, config, budget, loc, err, result, lastSetter>>

\* variant: the wait returns at the timeout instead of raising
PollTimesOut_Returns(p) ==
    /\ pc[p] = "wait"
    /\ GetStatus(Polled(p)) # "READY"
    /\ TimedOut(loc[p].elapsed, WAIT_TIMEOUT_S)
    /\ obs' = [obs EXCEPT ![p].polls = @ + 1, ![p].pend = @ + 1,
                          ![p].lastPoll = Polled(p)]
    /\ pc' = [pc EXCEPT ![p] = "alias"]
    /\ UNCHANGED <<store, versions, alias, config, budget, loc, err, result, lastSetter>>

\* status is not "READY" and time.time() - t0 > timeout_s: raise TimeoutError
PollTimesOut(p) ==
    /\ pc[p] = "wait"
    /\ GetStatus(Polled(p)) # "READY"
    /\ TimedOut(loc[p].elapsed, WAIT_TIMEOUT_S)
    /\ obs' = [obs EXCEPT ![p].polls = @ + 1, ![p].pend = @ + 1,
                          ![p].lastPoll = Polled(p)]
    /\ err' = [err EXCEPT ![p] = [kind |-> "Timeout", metric |-> "", recent |-> FALSE]]
    /\ pc' = [pc EXCEPT ![p] = "failed"]
    /\ UNCHANGED <<store, versions, alias, config, budget, loc, result, lastSetter>>

\* variant: a version reported FAILED_REGISTRATION ends the wait at once
PollSleeps_FailFast(p) ==
    /\ pc[p] = "wait"
    /\ GetStatus(Polled(p)) # "READY"
    /\ ~TimedOut(loc[p].elapsed, WAIT_TIMEOUT_S)
    /\ obs' = [obs EXCEPT ![p].polls = @ + 1, ![p].pend = @ + 1,
                          ![p].sleeps = IF Polled(p) = "FAILED_REGISTRATION" THEN @ ELSE @ + 1,
                          ![p].lastPoll = Polled(p)]
    /\ IF Polled(p) = "FAILED_REGISTRATION"
       THEN /\ err' = [err EXCEPT ![p] = [kind |-> "RegistrationFailed", metric |-> "",
                                          recent |-> FALSE]]
            /\ pc' = [pc EXCEPT ![p] = "failed"]
            /\ UNCHANGED loc
       ELSE /\ loc' = [loc EXCEPT ![p].elapsed = @ + POLL_INTERVAL_S]
            /\ UNCHANGED <<pc, err>>
    /\ UNCHANGED <<store, versions, alias, config, budget, result, lastSetter>>

\* status is not "READY" and no timeout yet: time.sleep(2), loop
PollSleeps(p) ==
    /\ pc[p] = "wait"
    /\ GetStatus(Polled(p)) # "READY"
    /\ ~TimedOut(loc[p].elapsed, WAIT_TIMEOUT_S)
    /\ obs' = [obs EXCEPT ![p].polls = @ + 1, ![p].pend = @ + 1, ![p].sleeps = @ + 1,
                          ![p].lastPoll = Polled(p)]
    /\ loc' = [loc EXCEPT ![p].elapsed = @ + POLL_INTERVAL_S]
    /\ UNCHANGED <<store, versions, alias, config, budget, pc, err, result, lastSetter>>

\* variant: an alias that is set already is left alone
SetAlias_KeepsExisting(p) ==
    /\ pc[p] = "alias"
    /\ alias' = IF alias = 0 THEN loc[p].mv ELSE alias
    /\ lastSetter' = p
    /\ obs' = [obs EXCEPT ![p].aliasCalls = @ + 1]
    /\ result' = [result EXCEPT ![p] =
                     [model_version |-> loc[p].mv, alias |-> CHAMPION,
                      best_run_id |-> loc[p].run_id, metric |-> METRIC,
                      metric_value |-> loc[p].best_val]]
    /\ pc' = [pc EXCEPT ![p] = "done"]
    /\ UNCHANGED <<store, versions, config, budget, loc, err>>

\* variant: the alias goes to the newest version of the registry
SetAlias_Newest(p) ==
    /\ pc[p] = "alias"
    /\ alias' = Len(versions)
    /\ lastSetter' = p
    /\ obs' = [obs EXCEPT ![p].aliasCalls = @ + 1]
    /\ result' = [result EXCEPT ![p] =
                     [model_version |-> loc[p].mv, alias |-> CHAMPION,
                      best_run_id |-> loc[p].run_id, metric |-> METRIC,
                      metric_value |-> loc[p].best_val]]
    /\ pc' = [pc EXCEPT ![p] = "done"]
    /\ UNCHANGED <<store, versions, config, budget, loc, err>>

\* client.set_registered_model_alias(alias="champion", version=mv.version) succeeds;
\* the result dict is built and returned.
SetAlias(p) ==
    /\ pc[p] = "alias"
    /\ alias' = loc[p].mv
    /\ lastSetter' = p
    /\ obs' = [obs EXCEPT ![p].aliasCalls = @ + 1]
    /\ result' = [result EXCEPT ![p] =
                     [model_version |-> loc[p].mv, alias |-> CHAMPION,
                      best_run_id |-> loc[p].run_id, metric |-> METRIC,
                      metric_value |-> loc[p].best_val]]
    /\ pc' = [pc EXCEPT ![p] = "done"]
    /\ UNCHANGED <<store, versions, config, budget, loc, err>>

\* variant: a failed alias assignment is tried again
SetAliasFails_Retries(p) ==
    /\ pc[p] = "alias"
    /\ obs[p].aliasCalls < 2
    /\ obs' = [obs EXCEPT ![p].aliasCalls = @ + 1]
    /\ UNCHANGED <<store, versions, alias, config, budget, pc, loc, err, result, lastSetter>>

\* client.set_registered_model_alias raises: the exception propagates
SetAliasFails(p) ==
    /\ pc[p] = "alias"
    /\ obs' = [obs EXCEPT ![p].aliasCalls = @ + 1]
    /\ err' = [err EXCEPT ![p] = [kind |-> "BackendError", metric |-> "", recent |-> FALSE]]
    /\ pc' = [pc EXCEPT ![p] = "failed"]
    /\ UNCHANGED <<store, versions, alias, config, budget, loc, result, lastSetter>>

\* ---------------------------------------------------------------------------
\* The registry's own steps on a version: pending -> ready, or pending -> failed
\* ---------------------------------------------------------------------------

VersionBecomesReady(v) ==
    /\ versions[v] = "PENDING_REGISTRATION"
    /\ versions' = [versions EXCEPT ![v] = "READY"]
    /\ UNCHANGED <<store, alias, config, budget, pc, loc, err, result, obs, lastSetter>>

VersionFails(v) ==
    /\ versions[v] = "PENDING_REGISTRATION"
    /\ versions' = [versions EXCEPT ![v] = "FAILED_REGISTRATION"]
    /\ UNCHANGED <<store, alias, config, budget, pc, loc, err, result, obs, lastSetter>>

Step(p) ==
    \/ Start(p)
    \/ SearchFindsNothing(p)
    \/ BestLacksMetric(p)
    \/ BestSelected(p)
    \/ Register(p)
    \/ PollReady(p)
    \/ PollTimesOut(p)
    \/ PollSleeps(p)
    \/ SetAlias(p)
    \/ SetAliasFails(p)

\* One invocation, over every content of the experiment.
Init == InitAll /\ budget = 1
Next ==
    \/ Step(1)
    \/ \E v \in 1 .. Len(versions) : VersionBecomesReady(v)
    \/ \E v \in 1 .. Len(versions) : VersionFails(v)
Spec == Init /\ [][Next]_vars

\* Invocations run one after another (a single caller, started again when it
\* ended), over every timeout; the experiment holds at most one run.
RegistryInit == InitAll /\ budget = MaxInvocations /\ Len(runs) <= 1
RegistrySpec == RegistryInit /\ [][Next]_vars

\* The same, and the caller's thread keeps running.
LiveSpec == RegistryInit /\ [][Next]_vars /\ WF_vars(Step(1))

\* Two invocations against the same registry, every backend call atomic.
ConcInit == InitAll /\ budget = Cardinality(Procs) /\ Len(runs) <= 1
ConcNext ==
    \/ \E p \in Procs : Step(p)
    \/ \E v \in 1 .. Len(versions) : VersionBecomesReady(v)
    \/ \E v \in 1 .. Len(versions) : VersionFails(v)
ConcSpec == ConcInit /\ [][ConcNext]_vars


\* ---------------------------------------------------------------------------
\* Properties
\* ---------------------------------------------------------------------------

TypeOK ==
    /\ experimentExists \in BOOLEAN
    /\ runs \in RunLists
    /\ \A v \in 1 .. Len(versions) : versions[v] \in VersionStatuses
    /\ alias \in 0 .. Len(versions)
    /\ HIGHER_IS_BETTER \in BOOLEAN
    /\ WAIT_TIMEOUT_S \in Timeouts
    /\ budget \in 0 .. MaxInvocations
    /\ \A p \in Procs :
           /\ pc[p] \in {"idle", "search", "register", "wait", "alias", "done", "failed"}
           /\ err[p].kind \in ErrorKinds
           /\ (pc[p] = "failed") = (err[p] # NoError)
           /\ (pc[p] = "done") = (result[p] # NoResult)
    /\ lastSetter \in Procs \cup {0}

\* The FINISHED runs of the experiment that report the metric.
Eligible ==
    {i \in 1 .. Len(runs) : runs[i].status = "FINISHED" /\ METRIC \in DOMAIN runs[i].metrics}

Value(i) == runs[i].metrics[METRIC]

Max(a, b) == IF a > b THEN a ELSE b

\* _wait_ready returned normally to register_best_model
WaitReturned(p) ==
    \/ pc[p] \in {"alias", "done"}
    \/ pc[p] = "failed" /\ err[p].kind = "BackendError"

WaitTimedOut(p) == pc[p] = "failed" /\ err[p].kind = "Timeout"

\* C1: when register_best_model succeeds, the run it selected is a FINISHED run
\* that reports the metric, its value is the maximum (higher_is_better) or the
\* minimum (otherwise) over all such runs, among the runs with that value it is
\* the first in the store's order, and the result's metric_value is its value.
C1_BestRunSelected ==
    \A p \in Procs :
        pc[p] = "done" =>
            LET r == loc[p].run_id
            IN  /\ r \in Eligible
                /\ \A q \in Eligible :
                       IF HIGHER_IS_BETTER THEN Value(q) <= Value(r) ELSE Value(q) >= Value(r)
                /\ \A q \in Eligible : Value(q) = Value(r) => r <= q
                /\ result[p].best_run_id = r
                /\ result[p].metric_value = Value(r)
                /\ result[p].metric = METRIC

\* C1 witness: a successful invocation chose among FINISHED runs with different
\* values, one of them tied with the winner, lower is better, and the winner is
\* not the first run of the store.
C1_Witness ==
    /\ pc[1] = "done"
    /\ ~HIGHER_IS_BETTER
    /\ loc[1].run_id > 1
    /\ \E q \in Eligible : Value(q) > Value(loc[1].run_id)
    /\ \E q \in Eligible \ {loc[1].run_id} : Value(q) = Value(loc[1].run_id)

\* C2: once the best-run query is answered, if no FINISHED run reports the
\* metric (also when FINISHED runs exist and none logged it), the invocation has
\* failed with the no-eligible-run error, whose message names the metric, and
\* never called register.
C2_NoEligibleRunError ==
    \A p \in Procs :
        (pc[p] \notin {"idle", "search"} /\ Eligible = {}) =>
            /\ pc[p] = "failed"
            /\ err[p].kind = "NoEligibleRun"
            /\ err[p].metric = METRIC
            /\ obs[p].regCalls = 0

\* C3: once the best-run query is answered, if its first run has no value for
\* the metric, the invocation has failed with the missing-metric error, and no
\* version was created, no poll made, and the alias not touched.
C3_MissingMetricBeforeRegister ==
    \A p \in Procs :
        ( /\ pc[p] \notin {"idle", "search"}
          /\ BestRunQuery # <<>>
          /\ METRIC \notin DOMAIN runs[BestRunQuery[1]].metrics ) =>
            /\ pc[p] = "failed"
            /\ err[p].kind = "MissingMetric"
            /\ obs[p].regCalls = 0
            /\ obs[p].polls = 0
            /\ obs[p].aliasCalls = 0
            /\ Len(versions) = obs[p].versionsAtStart
            /\ alias = obs[p].aliasAtStart

\* C3 witness: an invocation ended with the missing-metric error on a FINISHED
\* run that logged no metric.
C3_Witness ==
    /\ pc[1] = "failed"
    /\ err[1].kind = "MissingMetric"
    /\ loc[1].run_id \in 1 .. Len(runs)
    /\ runs[loc[1].run_id].status = "FINISHED"
    /\ runs[loc[1].run_id].metrics = <<>>

\* C4: when _wait_ready returns after N polls that were not ready, it made
\* exactly N+1 polls and N sleeps and 2N seconds elapsed; and it raises the
\* timeout error only if its last non-ready poll came after the timeout, that
\* is, never while the N pending polls fall within the timeout.
C4_ReadyAfterPendingPolls ==
    \A p \in Procs :
        /\ WaitReturned(p) =>
               /\ obs[p].polls = obs[p].pend + 1
               /\ obs[p].sleeps = obs[p].pend
               /\ loc[p].elapsed = 2 * obs[p].pend
        /\ WaitTimedOut(p) => 2 * (obs[p].pend - 1) > WAIT_TIMEOUT_S

\* C4 witness: _wait_ready returned on a READY poll after two pending polls.
C4_Witness ==
    /\ pc[1] = "alias"
    /\ obs[1].pend = 2
    /\ obs[1].polls = 3
    /\ obs[1].lastPoll = "READY"


\* C5 as stated: the alias assignment is called only after register returned a
\* version and a later poll of that version reported READY.
C5_AliasOnlyAfterReadyPoll ==
    \A p \in Procs :
        obs[p].aliasCalls > 0 =>
            /\ loc[p].mv \in 1 .. Len(versions)
            /\ obs[p].lastPoll = "READY"

\* The alias is gated on _wait_ready returning: the invocation reaches the
\* alias assignment only with a version it registered itself and a last poll
\* that reported READY or carried no status attribute; an invocation that timed
\* out made no alias assignment and the alias is where it was.
C5_Gate ==
    \A p \in Procs :
        /\ (pc[p] \in {"alias", "done"} \/ obs[p].aliasCalls > 0) =>
               /\ obs[p].regCalls = 1
               /\ loc[p].mv \in (obs[p].versionsAtStart + 1) .. Len(versions)
               /\ obs[p].lastPoll \in {"READY", NO_STATUS_ATTR}
        /\ WaitTimedOut(p) =>
               /\ obs[p].lastPoll \notin {"READY", NO_STATUS_ATTR}
               /\ obs[p].aliasCalls = 0
               /\ alias = obs[p].aliasAtStart

\* C5 (amended): the gate above holds always, and every readiness wait ends:
\* with a poll that reported READY or carried no status attribute, or else,
\* whatever the timeout, with the timeout error.
C5_AliasGatedOnReadiness ==
    /\ []C5_Gate
    /\ (pc[1] = "wait") ~> (pc[1] = "alias" \/ WaitTimedOut(1))

\* C5 witness: a version that never got ready; the invocation ended with the
\* timeout error after several polls and the alias still points at the version
\* of an earlier invocation.
C5_Witness ==
    /\ WaitTimedOut(1)
    /\ obs[1].lastPoll = "PENDING_REGISTRATION"
    /\ obs[1].polls >= 3
    /\ obs[1].aliasAtStart # 0
    /\ alias = obs[1].aliasAtStart
    /\ loc[1].mv > alias

\* C6 as stated: between entering _wait_ready and its return or its timeout
\* error, no more than timeout_s seconds elapse.
C6_WaitWithinTimeout ==
    \A p \in Procs :
        (WaitReturned(p) \/ WaitTimedOut(p)) => loc[p].elapsed <= WAIT_TIMEOUT_S

\* C6 (amended): for a non-negative timeout, the wait lasts at most timeout_s
\* plus one polling interval of 2 seconds, and the timeout error is raised only
\* when more than timeout_s seconds have elapsed.
C6_WaitWithinTimeoutPlusInterval ==
    \A p \in Procs :
        /\ loc[p].elapsed <= WAIT_TIMEOUT_S + 2
        /\ WaitTimedOut(p) => loc[p].elapsed > WAIT_TIMEOUT_S

\* C6 witness: a wait that ended with the timeout error a full polling interval
\* after the timeout.
C6_Witness ==
    /\ WaitTimedOut(1)
    /\ WAIT_TIMEOUT_S > 0
    /\ loc[1].elapsed = WAIT_TIMEOUT_S + 2

\* C7: with invocations run one after another, a successful invocation leaves
\* the alias at the version it registered, which is a new version, higher than
\* every version that existed when it started, and the newest of the registry.
C7_AliasAtNewVersion ==
    \A p \in Procs :
        pc[p] = "done" =>
            /\ alias = loc[p].mv
            /\ alias > obs[p].versionsAtStart
            /\ alias > obs[p].aliasAtStart
            /\ alias = Len(versions)
            /\ result[p].model_version = alias
            /\ result[p].alias = CHAMPION

\* C7 witness: a re-run with the same winning run moved the alias from the
\* version of the previous successful invocation to its own new version.
C7_Witness ==
    /\ pc[1] = "done"
    /\ obs[1].aliasAtStart # 0
    /\ alias = loc[1].mv
    /\ alias # obs[1].aliasAtStart

\* C8: registration and alias assignment are each attempted at most once per
\* invocation; when the invocation fails after its registration succeeded, the
\* error is that of the wait or of the alias assignment, the version it
\* registered is still in the registry (the only one it added), and the alias
\* is where it was when the invocation started.
C8_NoRollbackNoRetry ==
    \A p \in Procs :
        /\ obs[p].regCalls <= 1
        /\ obs[p].aliasCalls <= 1
        /\ (pc[p] = "failed" /\ obs[p].regCalls = 1) =>
               /\ err[p].kind \in {"Timeout", "BackendError"}
               /\ (err[p].kind = "BackendError") = (obs[p].aliasCalls = 1)
               /\ loc[p].mv = obs[p].versionsAtStart + 1
               /\ Len(versions) = loc[p].mv
               /\ alias = obs[p].aliasAtStart

\* C8 witness: the alias assignment failed after a successful registration and
\* wait; the new version is registered and the alias still points at the
\* version of an earlier invocation.
C8_Witness ==
    /\ pc[1] = "failed"
    /\ err[1].kind = "BackendError"
    /\ obs[1].aliasCalls = 1
    /\ loc[1].mv = Len(versions)
    /\ alias # 0
    /\ alias < loc[1].mv

\* C9 as stated: when two concurrent invocations both succeeded, the alias
\* points at the higher of the two versions they registered.
C9_HigherVersionWins ==
    (pc[1] = "done" /\ pc[2] = "done") => alias = Max(loc[1].mv, loc[2].mv)

\* C9 (amended): when two concurrent invocations both succeeded, the alias
\* points at the version registered by the invocation whose alias assignment
\* the registry applied last, which is one of the two and can be the lower.
C9_LastAssignmentWins ==
    (pc[1] = "done" /\ pc[2] = "done") =>
        /\ lastSetter \in Procs
        /\ alias = loc[lastSetter].mv
        /\ loc[1].mv # loc[2].mv

\* C9 witness: both invocations succeeded and the alias points at the lower of
\* their two versions.
C9_Witness ==
    /\ pc[1] = "done"
    /\ pc[2] = "done"
    /\ alias < Max(loc[1].mv, loc[2].mv)

\* C10: _wait_ready returns normally only on a poll that reported READY or
\* carried no status attribute; after a poll that reported the failure status
\* it has either slept 2 seconds and is about to poll again, or has raised the
\* timeout error with more than timeout_s seconds elapsed.
C10_NoFailFast ==
    \A p \in Procs :
        /\ WaitReturned(p) => obs[p].lastPoll \in {"READY", NO_STATUS_ATTR}
        /\ obs[p].lastPoll = "FAILED_REGISTRATION" =>
               \/ /\ pc[p] = "wait"
                  /\ obs[p].sleeps = obs[p].polls
                  /\ loc[p].elapsed = 2 * obs[p].polls
                  /\ Polled(p) = "FAILED_REGISTRATION"
               \/ /\ WaitTimedOut(p)
                  /\ loc[p].elapsed > WAIT_TIMEOUT_S

\* C10 witness: a version that failed before the first poll was polled several
\* times, 2 seconds apart, until the wait ended with the timeout error.
C10_Witness ==
    /\ WaitTimedOut(1)
    /\ obs[1].lastPoll = "FAILED_REGISTRATION"
    /\ obs[1].polls >= 3
    /\ obs[1].sleeps = obs[1].polls - 1
    /\ versions[loc[1].mv] = "FAILED_REGISTRATION"

====
